---- MODULE Spec2Model ----
(* difftool: version-aware manifest resolution (main.go) and the           *)
(* reconciliation diff engine (pkg/objdiff/objdiff.go, pkg/util/version.go) *)
EXTENDS Integers, Sequences, FiniteSets, TLC

VARIABLES
    \* fallbackPriority applied to drawn inputs
    pTarget, pAvail, pOut, pDone,
    \* DiffList applied to drawn inputs
    lDesired, lLive, lIgnore, lPresences, lDiffs, lDone,
    \* the run of main.go: options, file system, loop position, effects
    opts, version, targets, dirs, fs, pc, idx, stdout, stderr, calls, report, exitCode,
    \* Version.Less applied to drawn versions
    vA, vB, vC, vRes, vDone,
    \* one desired object diffed against one answer of the cluster
    oDesired, oRemote, oIgnore, oPresences, oDiffs, oErr, oLines, oVia,
    \* getAvailableVersions applied to drawn directory entries
    sEntries, sVersions, sWarnings, sDone,
    \* Object.String applied to two drawn objects
    iA, iB, iStrA, iStrB, iDone

pvars == <<pTarget, pAvail, pOut, pDone>>
lvars == <<lDesired, lLive, lIgnore, lPresences, lDiffs, lDone>>
rvars == <<opts, version, targets, dirs, fs, pc, idx, stdout, stderr, calls, report, exitCode>>
vvars == <<vA, vB, vC, vRes, vDone>>
ovars == <<oDesired, oRemote, oIgnore, oPresences, oDiffs, oErr, oLines, oVia>>
svars == <<sEntries, sVersions, sWarnings, sDone>>
ivars == <<iA, iB, iStrA, iStrB, iDone>>
vars == <<pvars, lvars, rvars, vvars, ovars, svars, ivars>>

\* a Go nil pointer, nil interface or nil slice; Some(x) is a non-nil one
NIL == <<>>
Some(x) == <<x>>

(* ------------------------------------------------------------------ *)
(* Bounds                                                              *)
(* ------------------------------------------------------------------ *)
MaxAvail == 3
MaxItems == 2
MaxTargets == 2
MaxVerPart == 1
MaxEntries == 3

(* ------------------------------------------------------------------ *)
(* util.Version                                                        *)
(* ------------------------------------------------------------------ *)
Ver(a, b, c, s) == [V |-> <<a, b, c>>, Suffix |-> s]

VersionString(v) ==
    ToString(v.V[1]) \o "." \o ToString(v.V[2]) \o "." \o ToString(v.V[3]) \o v.Suffix

\* Less with the suffix as a tie-break
LessWithSuffix(v, r) ==
    \/ v.V[1] < r.V[1]
    \/ (v.V[1] = r.V[1] /\ v.V[2] < r.V[2])
    \/ (v.V[1] = r.V[1] /\ v.V[2] = r.V[2] /\ v.V[3] < r.V[3])
    \/ (v.V = r.V /\ v.Suffix = "" /\ r.Suffix # "")

Less(v, r) ==
    \/ v.V[1] < r.V[1]
    \/ (v.V[1] = r.V[1] /\ v.V[2] < r.V[2])
    \/ (v.V[1] = r.V[1] /\ v.V[2] = r.V[2] /\ v.V[3] < r.V[3])

(* ------------------------------------------------------------------ *)
(* sort.Search and fallbackPriority                                    *)
(* ------------------------------------------------------------------ *)
RECURSIVE SearchLoop(_, _, _, _)
SearchLoop(i, j, ver, available) ==
    IF i < j
    THEN LET h == (i + j) \div 2
         IN  IF Less(available[h + 1], ver)      \* !f(h): available[h].Less(version)
             THEN SearchLoop(h + 1, j, ver, available)
             ELSE SearchLoop(i, h, ver, available)
    ELSE i

\* 0-based index of the first element that is not Less than ver
SortSearch(ver, available) == SearchLoop(0, Len(available), ver, available)

\* fallbackPriority with the second loop written as i > 0
fallbackPriorityDropLowest(ver, available) ==
    LET n == Len(available)
        i0 == SortSearch(ver, available)
    IN  [k \in 1..(IF i0 > 0 THEN n - 1 ELSE n) |->
            IF k <= n - i0 THEN available[i0 + k] ELSE available[n - k + 1]]

\* fallbackPriority with the second loop running upwards from 0
fallbackPriorityAscendingTail(ver, available) ==
    LET n == Len(available)
        i0 == SortSearch(ver, available)
    IN  [k \in 1..n |-> IF k <= n - i0 THEN available[i0 + k] ELSE available[k - (n - i0)]]

\* fallbackPriority searching for the first element greater than ver
fallbackPrioritySkipEqual(ver, available) ==
    LET n == Len(available)
        gt == { i \in 1..n : Less(ver, available[i]) }
        i0 == IF gt = {} THEN n ELSE (CHOOSE i \in gt : \A j \in gt : i <= j) - 1
    IN  [k \in 1..n |-> IF k <= n - i0 THEN available[i0 + k] ELSE available[n - k + 1]]

fallbackPriority(ver, available) ==
    LET n == Len(available)
        i0 == SortSearch(ver, available)
    IN  [k \in 1..n |->
            IF k <= n - i0
            THEN available[i0 + k]          \* for i := idx; i < len(available); i++
            ELSE available[n - k + 1]]      \* for i := idx - 1; i >= 0; i--

(* ------------------------------------------------------------------ *)
(* Inputs of fallbackPriority                                          *)
(* ------------------------------------------------------------------ *)
PrioVersions ==
    { Ver(4, 10, 0, ""), Ver(4, 11, 0, ""), Ver(4, 11, 0, "-rc1"),
      Ver(4, 11, 5, ""), Ver(4, 12, 0, "") }

\* what getAvailableVersions returns: ascending by Less (ties in any order)
IsAscending(s) == \A i \in 1..(Len(s) - 1) : ~Less(s[i + 1], s[i])

SeqsUpTo(S, n) == UNION { [1..k -> S] : k \in 0..n }

AscendingLists == { s \in SeqsUpTo(PrioVersions, MaxAvail) : IsAscending(s) }

PrioInit ==
    /\ pTarget \in PrioVersions
    /\ pAvail \in AscendingLists
    /\ pOut = <<>>
    /\ pDone = FALSE

FallbackPriorityCall ==
    /\ ~pDone
    /\ pOut' = fallbackPriority(pTarget, pAvail)
    /\ pDone' = TRUE
    /\ UNCHANGED <<pTarget, pAvail>>

(* ------------------------------------------------------------------ *)
(* objdiff.Object                                                      *)
(* ------------------------------------------------------------------ *)
\* leaves of the spec/data trees, as sequences of map keys from the root
\* (an element of a slice is reached by its index, written in decimal)
LeafPaths == { <<"replicas">>, <<"template", "image">>, <<"args", "0">> }

PayloadWith(r, img, arg) ==
    [p \in LeafPaths |-> IF p = <<"replicas">> THEN r
                         ELSE IF p = <<"template", "image">> THEN img ELSE arg]

Payload(r, img) == PayloadWith(r, img, "a")

Obj(av, kind, ns, name, spec, data) ==
    [APIVersion |-> av, Kind |-> kind, Namespace |-> ns, Name |-> name,
     Spec |-> spec, Data |-> data, Items |-> NIL]

ListObj(av, kind, items) ==
    [APIVersion |-> av, Kind |-> kind, Namespace |-> "", Name |-> "",
     Spec |-> NIL, Data |-> NIL, Items |-> Some(items)]

\* var obj objdiff.Object
ZeroObject ==
    [APIVersion |-> "", Kind |-> "", Namespace |-> "", Name |-> "",
     Spec |-> NIL, Data |-> NIL, Items |-> NIL]

IsList(o) == o.Items # NIL

ObjectString(o) ==
    IF o.Namespace = ""
    THEN o.APIVersion \o " " \o o.Kind \o " " \o o.Name
    ELSE o.APIVersion \o " " \o o.Kind \o " " \o o.Namespace \o "/" \o o.Name

(* ------------------------------------------------------------------ *)
(* IgnoreMapEntries, cmp.Diff, DiffObj                                 *)
(* ------------------------------------------------------------------ *)
RECURSIVE JoinDot(_)
JoinDot(key) ==
    IF Len(key) = 0 THEN ""
    ELSE IF Len(key) = 1 THEN key[1]
    ELSE key[1] \o "." \o JoinDot(Tail(key))

\* a filter that looks at the last key of the path only
IgnoreMapEntriesLastKey(ignoredKeys, path) ==
    IF Len(path) = 0 THEN "" \in ignoredKeys ELSE path[Len(path)] \in ignoredKeys

\* the filter of IgnoreMapEntries: the dot-joined keys of the path are one of ignoredKeys
IgnoreMapEntries(ignoredKeys, path) == JoinDot(path) \in ignoredKeys

\* cmp.Diff without the FilterPath option
CmpDiffUnfiltered(x, y, ignoredKeys) ==
    IF x = NIL \/ y = NIL
    THEN IF x = y
         THEN {}
         ELSE { [path |-> "", x |-> IF x = NIL THEN "<nil>" ELSE "<map>",
                            y |-> IF y = NIL THEN "<nil>" ELSE "<map>"] }
    ELSE { [path |-> JoinDot(p), x |-> x[1][p], y |-> y[1][p]] :
             p \in { q \in LeafPaths : x[1][q] # y[1][q] } }

\* cmp.Diff(x, y, FilterPath(filter, Ignore())): the reported leaves; {} is the empty text
CmpDiff(x, y, ignoredKeys) ==
    IF x = NIL \/ y = NIL
    THEN IF x = y \/ IgnoreMapEntries(ignoredKeys, <<>>)
         THEN {}
         ELSE { [path |-> "", x |-> IF x = NIL THEN "<nil>" ELSE "<map>",
                            y |-> IF y = NIL THEN "<nil>" ELSE "<map>"] }
    ELSE { [path |-> JoinDot(p), x |-> x[1][p], y |-> y[1][p]] :
             p \in { q \in LeafPaths :
                       /\ x[1][q] # y[1][q]
                       /\ \A n \in 0..Len(q) :
                            ~IgnoreMapEntries(ignoredKeys, SubSeq(q, 1, n)) } }

\* DiffObj comparing the spec fields whatever the kind
DiffObjSpecOnly(obj1, obj2, ignoredKeys) == CmpDiff(obj1.Spec, obj2.Spec, ignoredKeys)

\* DiffObj with the operands of cmp.Diff exchanged
DiffObjSwapped(obj1, obj2, ignoredKeys) ==
    IF obj1.Kind = "ConfigMap"
    THEN CmpDiff(obj2.Data, obj1.Data, ignoredKeys)
    ELSE CmpDiff(obj2.Spec, obj1.Spec, ignoredKeys)

DiffObj(obj1, obj2, ignoredKeys) ==
    IF obj1.Kind = "ConfigMap"
    THEN CmpDiff(obj1.Data, obj2.Data, ignoredKeys)
    ELSE CmpDiff(obj1.Spec, obj2.Spec, ignoredKeys)

(* ------------------------------------------------------------------ *)
(* DiffList                                                            *)
(* ------------------------------------------------------------------ *)
NotFoundEntry(o) == "- " \o ObjectString(o) \o " is not found\n"
FoundEntry(o) == "+ " \o ObjectString(o) \o " is found, but not in default\n"
\* fmt.Sprintf("%s\n%s", o2.String(), diff), and the bare diff text of diffObj
ChangedEntry(o, diff) == [labelled |-> TRUE, label |-> ObjectString(o), delta |-> diff]
BareDiff(diff) == [labelled |-> FALSE, label |-> "", delta |-> diff]

SeqMap(Op(_), s) == [i \in 1..Len(s) |-> Op(s[i])]
Range(s) == { s[i] : i \in 1..Len(s) }
Perms(S) == { s \in [1..Cardinality(S) -> S] : \A i, j \in 1..Cardinality(S) : s[i] = s[j] => i = j }

\* m[o.String()] = o for o in obj1, later items overwriting earlier ones
DiffListKeys(obj1) == { ObjectString(obj1[i]) : i \in 1..Len(obj1) }
DiffListM(obj1, k) ==
    obj1[CHOOSE i \in 1..Len(obj1) :
            /\ ObjectString(obj1[i]) = k
            /\ \A j \in 1..Len(obj1) : ObjectString(obj1[j]) = k => j <= i]

\* the first loop's appends to presences, in the order of obj2
DiffListNotFound(obj1, obj2) ==
    LET Unmatched(o2) == ObjectString(o2) \notin DiffListKeys(obj1)
    IN  SeqMap(NotFoundEntry, SelectSeq(obj2, Unmatched))

\* the first loop's appends to diffs, in the order of obj2
DiffListDiffs(obj1, obj2, ignoredKeys) ==
    LET Changed(o2) ==
            /\ ObjectString(o2) \in DiffListKeys(obj1)
            /\ DiffObj(DiffListM(obj1, ObjectString(o2)), o2, ignoredKeys) # {}
        Entry(o2) ==
            ChangedEntry(o2, DiffObj(DiffListM(obj1, ObjectString(o2)), o2, ignoredKeys))
    IN  SeqMap(Entry, SelectSeq(obj2, Changed))

\* the keys of m whose checked flag is still false after the first loop
DiffListUnchecked(obj1, obj2) ==
    { k \in DiffListKeys(obj1) : \A i \in 1..Len(obj2) : ObjectString(obj2[i]) # k }

\* every result DiffList can return: the last loop ranges over a Go map, in any order
DiffList(obj1, obj2, ignoredKeys) ==
    { [presences |-> DiffListNotFound(obj1, obj2)
                      \o [i \in 1..Len(order) |-> FoundEntry(DiffListM(obj1, order[i]))],
       diffs |-> DiffListDiffs(obj1, obj2, ignoredKeys)] :
        order \in Perms(DiffListUnchecked(obj1, obj2)) }

(* ------------------------------------------------------------------ *)
(* Inputs of DiffList                                                  *)
(* ------------------------------------------------------------------ *)
ItemNames == { "a", "b", "c" }

ListObjects ==
    { Obj("apps/v1", "Deployment", "ns", n, Some(Payload(r, "img")), NIL) :
        n \in ItemNames, r \in { "1", "2" } }
    \cup { Obj("v1", "ConfigMap", "", "m", NIL, Some(Payload("1", i))) : i \in { "x", "y" } }

\* Kubernetes names are unique per kind and namespace
UniqueIds(s) == \A i, j \in 1..Len(s) : ObjectString(s[i]) = ObjectString(s[j]) => i = j

ItemLists == { s \in SeqsUpTo(ListObjects, MaxItems) : UniqueIds(s) }

IgnoreLists == { {}, { "replicas" } }

ListInit ==
    /\ lDesired \in ItemLists
    /\ lLive \in ItemLists
    /\ lIgnore \in IgnoreLists
    /\ lPresences = <<>>
    /\ lDiffs = <<>>
    /\ lDone = FALSE

\* Diff.diffList once getRemoteObjs has returned lLive
DiffListCall ==
    /\ ~lDone
    /\ \E res \in DiffList(lDesired, lLive, lIgnore) :
         /\ lPresences' = res.presences
         /\ lDiffs' = res.diffs
    /\ lDone' = TRUE
    /\ UNCHANGED <<lDesired, lLive, lIgnore>>

(* ------------------------------------------------------------------ *)
(* Inputs of a run: options, target list, manifest directory, cluster  *)
(* ------------------------------------------------------------------ *)
DirVersions == { Ver(4, 10, 5, ""), Ver(4, 11, 2, ""), Ver(4, 12, 0, "") }
ClusterVersions == { Ver(4, 11, 0, ""), Ver(4, 11, 2, "") }

DeployTarget ==
    [APIVersion |-> "apps/v1", Kind |-> "Deployment", Manifest |-> "deploy.yaml", Ignore |-> {}]
ListTarget ==
    [APIVersion |-> "apps/v1", Kind |-> "Deployment", Manifest |-> "list.yaml",
     Ignore |-> { "replicas" }]
Targets == { DeployTarget, ListTarget }
Manifests == { t.Manifest : t \in Targets }

\* a file is absent (os.IsNotExist), unreadable or not YAML, or loads into an Object
Contents == { "absent", "bad", "ok" }

Deployment(name, r, img) ==
    Obj("apps/v1", "Deployment", "ns", name, Some(Payload(r, img)), NIL)

\* what loadYaml puts in obj for the file <dir>/<manifest>; each directory has its own text
ManifestObject(dir, manifest) ==
    IF manifest = "list.yaml"
    THEN ListObj("v1", "List", << Deployment("a", "1", dir), Deployment("b", "1", dir) >>)
    ELSE Deployment("a", "1", dir)

\* what the cluster may answer to Get for obj
LiveObjects(obj) ==
    { obj, [obj EXCEPT !.Spec = Some(Payload("2", "live"))] }

\* what the cluster may answer to List
LiveLists ==
    { <<>>, << Deployment("b", "2", "live"), Deployment("c", "1", "live") >> }

(* ------------------------------------------------------------------ *)
(* getAvailableVersions, loadYaml                                      *)
(* ------------------------------------------------------------------ *)
\* every order sort.Slice may leave the parsed directory names in
getAvailableVersions(d) == { s \in Perms(d) : IsAscending(s) }

\* the state of the file ManifestDir/<dir>/<manifest>
loadYaml(d, f, dir, manifest) ==
    IF \E v \in d : VersionString(v) = dir THEN f[dir][manifest] ELSE "absent"

(* ------------------------------------------------------------------ *)
(* Diff.Diff, diffObj, diffList                                        *)
(* ------------------------------------------------------------------ *)
Outcome(kind, err, used, presences, diffs, ops, notices) ==
    [kind |-> kind, err |-> err, used |-> used, tried |-> <<>>, presences |-> presences,
     diffs |-> diffs, ops |-> ops, notices |-> notices]

\* the directories whose manifest loadYaml was called on before the outcome
WithTried(outs, tried) == { [o EXCEPT !.tried = tried] : o \in outs }

\* what getRemoteObj returns: the decoded object, or the kind of its failure
Remote(kind, obj) == [kind |-> kind, obj |-> obj]

\* what the cluster may answer to the Get of a run; the dynamic client rejects an empty name
RemoteAnswers(obj) ==
    { Remote("error", ZeroObject) }
    \cup (IF obj.Name = "" THEN {}
          ELSE { Remote("notfound", ZeroObject) }
               \cup { Remote("found", o) : o \in LiveObjects(obj) })

\* diffObj reporting every failed Get as a missing object
diffObjResultAnyErrorMissing(obj, remote, ignoredKeys) ==
    IF remote.kind # "found"
    THEN [err |-> FALSE, presences |-> << NotFoundEntry(obj) >>, diffs |-> <<>>]
    ELSE LET diff == DiffObj(obj, remote.obj, ignoredKeys)
         IN  [err |-> FALSE, presences |-> <<>>,
              diffs |-> IF diff # {} THEN << BareDiff(diff) >> ELSE <<>>]

\* diffObj once getRemoteObj has returned remote
diffObjResult(obj, remote, ignoredKeys) ==
    IF remote.kind = "notfound"
    THEN [err |-> FALSE, presences |-> << NotFoundEntry(obj) >>, diffs |-> <<>>]
    ELSE IF remote.kind # "found"
    THEN [err |-> TRUE, presences |-> <<>>, diffs |-> <<>>]
    ELSE LET diff == DiffObj(obj, remote.obj, ignoredKeys)
         IN  [err |-> FALSE, presences |-> <<>>,
              diffs |-> IF diff # {} THEN << BareDiff(diff) >> ELSE <<>>]

\* diffObj issuing the Get again after a failed Get
diffObjRetry(obj, ignoredKeys, used, notices) ==
    { LET r == diffObjResult(obj, a, ignoredKeys)
      IN  Outcome(IF r.err THEN "err" ELSE "ok", IF r.err THEN "get" ELSE "", used,
                  r.presences, r.diffs,
                  IF r.err THEN << "getResource", "get", "get" >> ELSE << "getResource", "get" >>,
                  notices) :
        a \in RemoteAnswers(obj) }

\* diffObj: one Get
diffObj(obj, ignoredKeys, used, notices) ==
    { LET r == diffObjResult(obj, a, ignoredKeys)
      IN  Outcome(IF r.err THEN "err" ELSE "ok", IF r.err THEN "get" ELSE "", used,
                  r.presences, r.diffs, << "getResource", "get" >>, notices) :
        a \in RemoteAnswers(obj) }

\* diffList: one List, then DiffList(obj.Items, remote)
diffList(obj, ignoredKeys, used, notices) ==
    LET ops == << "getResource", "list" >>
    IN  { Outcome("err", "list", used, <<>>, <<>>, ops, notices) }
        \cup UNION { { Outcome("ok", "", used, res.presences, res.diffs, ops, notices) :
                         res \in DiffList(obj.Items[1], remote, ignoredKeys) } :
                     remote \in LiveLists }

DiffDiff(obj, ignoredKeys, used, notices) ==
    { Outcome("err", "resource", used, <<>>, <<>>, << "getResource" >>, notices) }
    \cup (IF IsList(obj)
          THEN diffList(obj, ignoredKeys, used, notices)
          ELSE diffObj(obj, ignoredKeys, used, notices))

(* ------------------------------------------------------------------ *)
(* checkTarget                                                         *)
(* ------------------------------------------------------------------ *)
UseNotice(v, ver) == "use " \o VersionString(v) \o " instead of " \o VersionString(ver) \o "\n"

\* the fallback loop over prioritized, from its k-th candidate on
RECURSIVE FallbackLoop(_, _, _, _, _, _, _)
FallbackLoop(o, target, d, f, prioritized, k, tried) ==
    IF k > Len(prioritized)
    THEN WithTried(DiffDiff(ZeroObject, target.Ignore, "", <<>>), tried)
    ELSE LET dir == VersionString(prioritized[k])
             st == loadYaml(d, f, dir, target.Manifest)
         IN  IF st = "bad"
             THEN WithTried({ Outcome("err", "load", "", <<>>, <<>>, <<>>, <<>>) },
                            Append(tried, dir))
             ELSE IF st = "absent"
             THEN FallbackLoop(o, target, d, f, prioritized, k + 1, Append(tried, dir))
             ELSE WithTried(DiffDiff(ManifestObject(dir, target.Manifest), target.Ignore, dir,
                                     << UseNotice(prioritized[k], o.Version[1]) >>),
                            Append(tried, dir))

\* checkTarget without the test of opts.Fallback
checkTargetIgnoreFallbackFlag(o, target, ver, d, f) ==
    LET dir == VersionString(ver)
        st == loadYaml(d, f, dir, target.Manifest)
    IN  IF st = "bad"
        THEN WithTried({ Outcome("err", "load", "", <<>>, <<>>, <<>>, <<>>) }, << dir >>)
        ELSE IF st = "ok"
        THEN WithTried(DiffDiff(ManifestObject(dir, target.Manifest), target.Ignore, dir, <<>>),
                       << dir >>)
        ELSE IF o.Version = NIL
        THEN IF d # {}
             THEN WithTried({ Outcome("panic", "nil", "", <<>>, <<>>, <<>>, <<>>) }, << dir >>)
             ELSE WithTried(DiffDiff(ZeroObject, target.Ignore, "", <<>>), << dir >>)
        ELSE UNION { FallbackLoop(o, target, d, f, fallbackPriority(o.Version[1], versions),
                                  1, << dir >>) :
                       versions \in getAvailableVersions(d) }

\* every way checkTarget can end: a result, an error, or a nil dereference in Less
checkTarget(o, target, ver, d, f) ==
    LET dir == VersionString(ver)
        st == loadYaml(d, f, dir, target.Manifest)
    IN  IF st = "bad"
        THEN WithTried({ Outcome("err", "load", "", <<>>, <<>>, <<>>, <<>>) }, << dir >>)
        ELSE IF st = "ok"
        THEN WithTried(DiffDiff(ManifestObject(dir, target.Manifest), target.Ignore, dir, <<>>),
                       << dir >>)
        ELSE IF ~o.Fallback
        THEN WithTried({ Outcome("err", "notexist", "", <<>>, <<>>, <<>>, <<>>) }, << dir >>)
        ELSE IF o.Version = NIL
        THEN \* fallbackPriority(opts.Version, versions): Less reads r.V of a nil r
             IF d # {}
             THEN WithTried({ Outcome("panic", "nil", "", <<>>, <<>>, <<>>, <<>>) }, << dir >>)
             ELSE WithTried(DiffDiff(ZeroObject, target.Ignore, "", <<>>), << dir >>)
        ELSE UNION { FallbackLoop(o, target, d, f, fallbackPriority(o.Version[1], versions),
                                  1, << dir >>) :
                       versions \in getAvailableVersions(d) }

(* ------------------------------------------------------------------ *)
(* run                                                                 *)
(* ------------------------------------------------------------------ *)
Line(t, kind, presences, diffs) ==
    [t |-> t, kind |-> kind, presences |-> presences, diffs |-> diffs]

\* what the loop body prints after the label for a result of checkTarget
ResultLines(t, kind, presences, diffs) ==
    IF kind # "ok" THEN <<>>
    ELSE IF Len(presences) = 0 /\ Len(diffs) = 0
    THEN << Line(t, "nodiff", <<>>, <<>>) >>
    ELSE (IF Len(presences) # 0 THEN << Line(t, "presences", presences, <<>>) >> ELSE <<>>)
         \o (IF Len(diffs) # 0 THEN << Line(t, "diffs", <<>>, diffs) >> ELSE <<>>)

\* the process is still running; ExitOk and ExitPanic are the exit statuses of a Go
\* program whose main returns and whose goroutine panics
NotExited == -1
ExitOk == 0
ExitPanic == 2

RunInit ==
    /\ opts \in [Fallback : BOOLEAN, Version : { NIL } \cup { Some(v) : v \in ClusterVersions }]
    /\ version = NIL
    /\ targets \in SeqsUpTo(Targets, MaxTargets)
    /\ dirs \in SUBSET DirVersions
    /\ fs \in [{ VersionString(v) : v \in dirs } -> [Manifests -> Contents]]
    /\ pc = "start"
    /\ idx = 0
    /\ stdout = <<>>
    /\ stderr = <<>>
    /\ calls = <<>>
    /\ report = <<>>
    /\ exitCode = NotExited

\* run returns an error before the loop: options, target list, kubeconfig, version detection
RunStartFail ==
    /\ pc = "start"
    /\ pc' = "failed"
    /\ UNCHANGED <<opts, version, targets, dirs, fs, idx, stdout, stderr, calls, report,
                   exitCode>>

\* run reaches the loop; the version is opts.Version or the one the cluster reports
RunStartOk ==
    /\ pc = "start"
    /\ \E cv \in ClusterVersions :
         version' = IF opts.Version # NIL THEN opts.Version ELSE Some(cv)
    /\ pc' = "loop"
    /\ idx' = 1
    /\ UNCHANGED <<opts, targets, dirs, fs, stdout, stderr, calls, report, exitCode>>

\* one iteration of the loop over targets
RunTarget ==
    /\ pc = "loop"
    /\ idx <= Len(targets)
    /\ \E out \in checkTarget(opts, targets[idx], version[1], dirs, fs) :
         /\ calls' = calls \o [k \in 1..Len(out.ops) |-> [t |-> idx, op |-> out.ops[k]]]
         /\ report' = Append(report, [kind |-> out.kind, err |-> out.err, used |-> out.used,
                                      tried |-> out.tried, presences |-> out.presences,
                                      diffs |-> out.diffs])
         /\ stdout' = stdout
                \o << Line(idx, "label", <<>>, <<>>) >>
                \o ResultLines(idx, out.kind, out.presences, out.diffs)
         /\ stderr' = stderr
                \o [k \in 1..Len(out.notices) |-> [t |-> idx, text |-> out.notices[k]]]
                \o (IF out.kind = "err"
                    THEN << [t |-> idx, text |-> "skipped due to error: " \o out.err \o "\n"] >>
                    ELSE IF out.kind = "panic"
                    THEN << [t |-> idx, text |-> "panic: nil pointer dereference"] >>
                    ELSE <<>>)
         /\ pc' = IF out.kind = "panic" THEN "panic" ELSE "loop"
         /\ idx' = IF out.kind = "panic" THEN idx ELSE idx + 1
    /\ UNCHANGED <<opts, version, targets, dirs, fs, exitCode>>

\* the loop is over: run returns nil
RunReturn ==
    /\ pc = "loop"
    /\ idx > Len(targets)
    /\ pc' = "done"
    /\ UNCHANGED <<opts, version, targets, dirs, fs, idx, stdout, stderr, calls, report,
                   exitCode>>

\* main after run has returned: an error is printed, then main returns in either case
\* (the panic after "if err != nil { return }" is never reached)
MainReturn ==
    /\ exitCode = NotExited
    /\ pc \in { "failed", "done" }
    /\ stderr' = IF pc = "failed"
                 THEN Append(stderr, [t |-> 0, text |-> "error"])
                 ELSE stderr
    /\ exitCode' = ExitOk
    /\ UNCHANGED <<opts, version, targets, dirs, fs, pc, idx, stdout, calls, report>>

\* the Go runtime ends the process after the nil dereference in checkTarget
PanicExit ==
    /\ exitCode = NotExited
    /\ pc = "panic"
    /\ exitCode' = ExitPanic
    /\ UNCHANGED <<opts, version, targets, dirs, fs, pc, idx, stdout, stderr, calls, report>>

(* ------------------------------------------------------------------ *)
(* Inputs of Version.Less                                              *)
(* ------------------------------------------------------------------ *)
OrderVersions ==
    { Ver(a, b, c, s) : a \in 0..MaxVerPart, b \in 0..MaxVerPart, c \in 0..MaxVerPart,
                        s \in { "", "-rc1" } }

VerInit ==
    /\ vA \in OrderVersions
    /\ vB \in OrderVersions
    /\ vC \in OrderVersions
    /\ vRes = [aa |-> FALSE, ab |-> FALSE, ba |-> FALSE, bc |-> FALSE, ac |-> FALSE]
    /\ vDone = FALSE

\* the comparisons sort.Slice and sort.Search make on three versions
LessCall ==
    /\ ~vDone
    /\ vRes' = [aa |-> Less(vA, vA), ab |-> Less(vA, vB), ba |-> Less(vB, vA),
                bc |-> Less(vB, vC), ac |-> Less(vA, vC)]
    /\ vDone' = TRUE
    /\ UNCHANGED <<vA, vB, vC>>

(* ------------------------------------------------------------------ *)
(* One object against one answer of the cluster                        *)
(* ------------------------------------------------------------------ *)
DesiredPayloads == { NIL, Some(PayloadWith("1", "x", "p")) }
RemotePayloads ==
    { NIL } \cup { Some(PayloadWith(r, img, arg)) :
                     r \in { "1", "2" }, img \in { "x", "y" }, arg \in { "p", "q" } }

ObjIdentity(kind) ==
    IF kind = "ConfigMap"
    THEN [APIVersion |-> "v1", Kind |-> "ConfigMap", Namespace |-> "ns", Name |-> "m"]
    ELSE [APIVersion |-> "apps/v1", Kind |-> "Deployment", Namespace |-> "ns", Name |-> "a"]

ObjOf(kind, spec, data) ==
    Obj(ObjIdentity(kind).APIVersion, kind, ObjIdentity(kind).Namespace,
        ObjIdentity(kind).Name, spec, data)

DesiredObjects ==
    { ObjOf(kind, spec, data) :
        kind \in { "Deployment", "ConfigMap" }, spec \in DesiredPayloads, data \in DesiredPayloads }

\* getRemoteObj: not found, another failure of Get, a response that does not decode, or
\* the live object of the same identity
RemoteOutcomes(obj) ==
    { Remote(k, ZeroObject) : k \in { "notfound", "error", "decode" } }
    \cup { Remote("found", ObjOf(obj.Kind, spec, data)) :
             spec \in RemotePayloads, data \in RemotePayloads }

IgnoreSets ==
    { {}, { "" }, { "replicas" }, { "spec.replicas" }, { "template" }, { "template.image" },
      { "image" }, { "template.*" }, { "temp" }, { "args" }, { "args.0" }, { "0" },
      { "replicas", "template.image" }, { "spec.replicas", "args.0" } }

ObjInit ==
    /\ oDesired \in DesiredObjects
    /\ oRemote \in RemoteOutcomes(oDesired)
    /\ oIgnore \in IgnoreSets
    /\ oPresences = <<>>
    /\ oDiffs = <<>>
    /\ oErr = FALSE
    /\ oLines = <<>>
    /\ oVia = "none"

\* Diff.diffObj, and what run prints for its result
DiffObjCall ==
    /\ oVia = "none"
    /\ LET r == diffObjResult(oDesired, oRemote, oIgnore)
       IN  /\ oPresences' = r.presences
           /\ oDiffs' = r.diffs
           /\ oErr' = r.err
           /\ oLines' = ResultLines(1, IF r.err THEN "err" ELSE "ok", r.presences, r.diffs)
    /\ oVia' = "obj"
    /\ UNCHANGED <<oDesired, oRemote, oIgnore>>

\* the same pair as the only items of a desired list and of the listed live objects
DiffListItemCall ==
    /\ oVia = "none"
    /\ oRemote.kind = "found"
    /\ \E r \in DiffList(<< oDesired >>, << oRemote.obj >>, oIgnore) :
         /\ oPresences' = r.presences
         /\ oDiffs' = r.diffs
         /\ oLines' = ResultLines(1, "ok", r.presences, r.diffs)
    /\ oErr' = FALSE
    /\ oVia' = "list"
    /\ UNCHANGED <<oDesired, oRemote, oIgnore>>

(* ------------------------------------------------------------------ *)
(* util.ParseVersion and the scan of the manifest directory            *)
(* ------------------------------------------------------------------ *)
Digits == { "0", "1", "2", "3", "4", "5", "6", "7", "8", "9" }

DigitValue(c) ==
    CASE c = "0" -> 0 [] c = "1" -> 1 [] c = "2" -> 2 [] c = "3" -> 3 [] c = "4" -> 4
      [] c = "5" -> 5 [] c = "6" -> 6 [] c = "7" -> 7 [] c = "8" -> 8 [] c = "9" -> 9

\* the byte of a character of an entry name
Ascii(c) ==
    CASE
         c = " " -> 32
      [] c = "-" -> 45
      [] c = "." -> 46
      [] c = "0" -> 48
      [] c = "1" -> 49
      [] c = "2" -> 50
      [] c = "4" -> 52
      [] c = "5" -> 53
      [] c = "6" -> 54
      [] c = "7" -> 55
      [] c = "9" -> 57
      [] c = "a" -> 97
      [] c = "c" -> 99
      [] c = "e" -> 101
      [] c = "l" -> 108
      [] c = "r" -> 114
      [] c = "s" -> 115
      [] c = "t" -> 116
      [] c = "v" -> 118

\* strings.TrimSpace
RECURSIVE TrimLeft(_)
TrimLeft(s) == IF s # <<>> /\ Head(s) = " " THEN TrimLeft(Tail(s)) ELSE s
RECURSIVE TrimRight(_)
TrimRight(s) ==
    IF s # <<>> /\ s[Len(s)] = " " THEN TrimRight(SubSeq(s, 1, Len(s) - 1)) ELSE s
TrimSpace(s) == TrimRight(TrimLeft(s))

\* the length of the run of digits at the head of s: \d+ is greedy
RECURSIVE DigitRun(_)
DigitRun(s) == IF s # <<>> /\ Head(s) \in Digits THEN 1 + DigitRun(Tail(s)) ELSE 0

\* rxVersion.FindStringSubmatch: NIL, or the groups of ^(\d+)\.(\d+)\.(\d+)(.*)
RxVersionMatch(s) ==
    LET n1 == DigitRun(s)
        r1 == SubSeq(s, n1 + 1, Len(s))
        n2 == IF r1 # <<>> /\ Head(r1) = "." THEN DigitRun(Tail(r1)) ELSE 0
        r2 == SubSeq(r1, n2 + 2, Len(r1))
        n3 == IF r2 # <<>> /\ Head(r2) = "." THEN DigitRun(Tail(r2)) ELSE 0
        r3 == SubSeq(r2, n3 + 2, Len(r2))
    IN  IF n1 = 0 \/ n2 = 0 \/ n3 = 0 THEN NIL
        ELSE Some(<< SubSeq(s, 1, n1), SubSeq(r1, 2, n2 + 1), SubSeq(r2, 2, n3 + 1), r3 >>)

\* strconv.ParseUint(d, 10, 32) fails above 4294967295
MaxUint32Digits == << "4", "2", "9", "4", "9", "6", "7", "2", "9", "5" >>

RECURSIVE StripZeros(_)
StripZeros(d) == IF Len(d) > 1 /\ Head(d) = "0" THEN StripZeros(Tail(d)) ELSE d

\* a <= b for two digit strings of the same length
RECURSIVE DigitsLeq(_, _)
DigitsLeq(a, b) ==
    IF a = <<>> THEN TRUE
    ELSE IF DigitValue(Head(a)) # DigitValue(Head(b))
    THEN DigitValue(Head(a)) < DigitValue(Head(b))
    ELSE DigitsLeq(Tail(a), Tail(b))

FitsUint32(d) ==
    \/ Len(StripZeros(d)) < Len(MaxUint32Digits)
    \/ /\ Len(StripZeros(d)) = Len(MaxUint32Digits)
       /\ DigitsLeq(StripZeros(d), MaxUint32Digits)

RECURSIVE DigitsValue(_)
DigitsValue(d) ==
    IF d = <<>> THEN 0
    ELSE 10 * DigitsValue(SubSeq(d, 1, Len(d) - 1)) + DigitValue(d[Len(d)])

RECURSIVE Concat(_)
Concat(s) == IF s = <<>> THEN "" ELSE Head(s) \o Concat(Tail(s))

\* ParseVersion that does not trim the name
ParseVersionNoTrim(vsn) ==
    LET m == RxVersionMatch(vsn)
    IN  IF m = NIL THEN NIL
        ELSE IF \E i \in 1..3 : ~FitsUint32(m[1][i]) THEN NIL
        ELSE Some(Ver(DigitsValue(m[1][1]), DigitsValue(m[1][2]), DigitsValue(m[1][3]),
                      Concat(m[1][4])))

\* ParseVersion: NIL stands for the returned error
ParseVersion(vsn) ==
    LET m == RxVersionMatch(TrimSpace(vsn))
    IN  IF m = NIL THEN NIL
        ELSE IF \E i \in 1..3 : ~FitsUint32(m[1][i]) THEN NIL
        ELSE Some(Ver(DigitsValue(m[1][1]), DigitsValue(m[1][2]), DigitsValue(m[1][3]),
                      Concat(m[1][4])))

\* names a manifest directory may hold
EntryNames ==
    { << "4", ".", "9", ".", "1", "2" >>,
      << "4", ".", "1", "0", ".", "5" >>,
      << "4", ".", "1", "1", ".", "0" >>,
      << "4", ".", "1", "1", ".", "0", "-", "r", "c", "1" >>,
      << " ", "4", ".", "1", "2", ".", "0" >>,
      << "0", "4", ".", "1", "1", ".", "0" >>,
      << "4", ".", "1", "1", ".", "0", ".", "1" >>,
      << "4", ".", "1", "1" >>,
      << "l", "a", "t", "e", "s", "t" >>,
      << "v", "4", ".", "1", "1", ".", "0" >>,
      << "4", "2", "9", "4", "9", "6", "7", "2", "9", "6", ".", "0", ".", "0" >> }

\* os.ReadDir returns the entries sorted by filename
RECURSIVE NameLess(_, _)
NameLess(a, b) ==
    IF b = <<>> THEN FALSE
    ELSE IF a = <<>> THEN TRUE
    ELSE IF Ascii(Head(a)) # Ascii(Head(b)) THEN Ascii(Head(a)) < Ascii(Head(b))
    ELSE NameLess(Tail(a), Tail(b))

EntryLists ==
    { s \in SeqsUpTo(EntryNames, MaxEntries) :
        \A i \in 1..(Len(s) - 1) : NameLess(s[i], s[i + 1]) }

\* the loop of getAvailableVersions: the versions appended, in the order of the entries
ParsedEntries(entries) ==
    LET parses == SelectSeq(entries, LAMBDA n : ParseVersion(n) # NIL)
    IN  [i \in 1..Len(parses) |-> ParseVersion(parses[i])[1]]

\* the loop of getAvailableVersions: the names a warning is printed for
WarnedEntries(entries) == SelectSeq(entries, LAMBDA n : ParseVersion(n) = NIL)

\* sort.Slice(versions, Less): any arrangement of versions that is ascending
SortSlice(versions) ==
    { [i \in 1..Len(versions) |-> versions[perm[i]]] :
        perm \in { q \in Perms(1..Len(versions)) :
                     IsAscending([i \in 1..Len(versions) |-> versions[q[i]]]) } }

ScanInit ==
    /\ sEntries \in EntryLists
    /\ sVersions = <<>>
    /\ sWarnings = <<>>
    /\ sDone = FALSE

\* getAvailableVersions(dir) on a directory holding sEntries
GetAvailableVersionsCall ==
    /\ ~sDone
    /\ sVersions' \in SortSlice(ParsedEntries(sEntries))
    /\ sWarnings' = WarnedEntries(sEntries)
    /\ sDone' = TRUE
    /\ UNCHANGED sEntries

(* ------------------------------------------------------------------ *)
(* Object.String on two objects                                        *)
(* ------------------------------------------------------------------ *)
\* the metadata a manifest or the cluster may give an object; loadYaml takes any string
\* for metadata.name
IdAPIVersions == { "v1", "apps/v1" }
IdKinds == { "Deployment", "ConfigMap" }
IdNamespaces == { "", "a" }
IdNames == { "a", "b", "a/b" }

IdObjects ==
    { Obj(av, kind, ns, name, NIL, NIL) :
        av \in IdAPIVersions, kind \in IdKinds, ns \in IdNamespaces, name \in IdNames }

IdInit ==
    /\ iA \in IdObjects
    /\ iB \in IdObjects
    /\ iStrA = ""
    /\ iStrB = ""
    /\ iDone = FALSE

\* o.String() for both objects, as DiffList does to join them
StringCall ==
    /\ ~iDone
    /\ iStrA' = ObjectString(iA)
    /\ iStrB' = ObjectString(iB)
    /\ iDone' = TRUE
    /\ UNCHANGED <<iA, iB>>

(* ------------------------------------------------------------------ *)
(* Specifications                                                      *)
(* ------------------------------------------------------------------ *)
PrioIdle == pTarget = Ver(0, 0, 0, "") /\ pAvail = <<>> /\ pOut = <<>> /\ pDone = TRUE
ListIdle ==
    /\ lDesired = <<>> /\ lLive = <<>> /\ lIgnore = {}
    /\ lPresences = <<>> /\ lDiffs = <<>> /\ lDone = TRUE
VerIdle ==
    /\ vA = Ver(0, 0, 0, "") /\ vB = Ver(0, 0, 0, "") /\ vC = Ver(0, 0, 0, "")
    /\ vRes = [aa |-> FALSE, ab |-> FALSE, ba |-> FALSE, bc |-> FALSE, ac |-> FALSE]
    /\ vDone = TRUE
RunIdle ==
    /\ opts = [Fallback |-> FALSE, Version |-> NIL] /\ version = NIL /\ targets = <<>>
    /\ dirs = {} /\ fs = <<>> /\ pc = "idle" /\ idx = 0
    /\ stdout = <<>> /\ stderr = <<>> /\ calls = <<>> /\ report = <<>>
    /\ exitCode = NotExited
ObjIdle ==
    /\ oDesired = ZeroObject /\ oRemote = Remote("error", ZeroObject) /\ oIgnore = {}
    /\ oPresences = <<>> /\ oDiffs = <<>> /\ oErr = FALSE /\ oLines = <<>> /\ oVia = "idle"
ScanIdle == sEntries = <<>> /\ sVersions = <<>> /\ sWarnings = <<>> /\ sDone = TRUE
IdIdle == iA = ZeroObject /\ iB = ZeroObject /\ iStrA = "" /\ iStrB = "" /\ iDone = TRUE

\* a run of the tool
Init == RunInit /\ PrioIdle /\ ListIdle /\ VerIdle /\ ObjIdle /\ ScanIdle /\ IdIdle
Next ==
    \/ RunStartFail /\ UNCHANGED <<pvars, lvars, vvars, ovars, svars, ivars>>
    \/ RunStartOk /\ UNCHANGED <<pvars, lvars, vvars, ovars, svars, ivars>>
    \/ RunTarget /\ UNCHANGED <<pvars, lvars, vvars, ovars, svars, ivars>>
    \/ RunReturn /\ UNCHANGED <<pvars, lvars, vvars, ovars, svars, ivars>>
    \/ MainReturn /\ UNCHANGED <<pvars, lvars, vvars, ovars, svars, ivars>>
    \/ PanicExit /\ UNCHANGED <<pvars, lvars, vvars, ovars, svars, ivars>>
Spec == Init /\ [][Next]_vars

\* fallbackPriority on every target and every ascending list
InitPrio == PrioInit /\ ListIdle /\ RunIdle /\ VerIdle /\ ObjIdle /\ ScanIdle /\ IdIdle
NextPrio == FallbackPriorityCall /\ UNCHANGED <<lvars, rvars, vvars, ovars, svars, ivars>>
SpecPrio == InitPrio /\ [][NextPrio]_vars

\* DiffList on every pair of item lists
InitList == ListInit /\ PrioIdle /\ RunIdle /\ VerIdle /\ ObjIdle /\ ScanIdle /\ IdIdle
NextList == DiffListCall /\ UNCHANGED <<pvars, rvars, vvars, ovars, svars, ivars>>
SpecList == InitList /\ [][NextList]_vars

\* Version.Less on every three versions
InitVer == VerInit /\ PrioIdle /\ ListIdle /\ RunIdle /\ ObjIdle /\ ScanIdle /\ IdIdle
NextVer == LessCall /\ UNCHANGED <<pvars, lvars, rvars, ovars, svars, ivars>>
SpecVer == InitVer /\ [][NextVer]_vars

\* diffObj and DiffList on every desired object and every answer of the cluster
InitObj == ObjInit /\ PrioIdle /\ ListIdle /\ RunIdle /\ VerIdle /\ ScanIdle /\ IdIdle
NextObj ==
    \/ DiffObjCall /\ UNCHANGED <<pvars, lvars, rvars, vvars, svars, ivars>>
    \/ DiffListItemCall /\ UNCHANGED <<pvars, lvars, rvars, vvars, svars, ivars>>
SpecObj == InitObj /\ [][NextObj]_vars

\* getAvailableVersions on every manifest directory
InitScan == ScanInit /\ PrioIdle /\ ListIdle /\ RunIdle /\ VerIdle /\ ObjIdle /\ IdIdle
NextScan == GetAvailableVersionsCall /\ UNCHANGED <<pvars, lvars, rvars, vvars, ovars, ivars>>
SpecScan == InitScan /\ [][NextScan]_vars

\* Object.String on every pair of objects
InitId ==
    IdInit /\ PrioIdle /\ ListIdle /\ RunIdle /\ VerIdle /\ ObjIdle /\ ScanIdle
NextId == StringCall /\ UNCHANGED <<pvars, lvars, rvars, vvars, ovars, svars>>
SpecId == InitId /\ [][NextId]_vars

(* ------------------------------------------------------------------ *)
(* Properties of the list diff (SpecList)                              *)
(* ------------------------------------------------------------------ *)
Ids(items) == { ObjectString(items[i]) : i \in 1..Len(items) }

\* the payload DiffObj is to compare: data of a ConfigMap, spec of anything else
Compared(o) == IF o.Kind = "ConfigMap" THEN o.Data ELSE o.Spec

\* the filtered delta with the desired item as reference and the live item second
ExpectedDelta(desired, live, ignoredKeys) ==
    CmpDiff(Compared(desired), Compared(live), ignoredKeys)

MissingReported == { e \in Range(lPresences) : \E o \in ListObjects : e = NotFoundEntry(o) }
ExtraReported == { e \in Range(lPresences) : \E o \in ListObjects : e = FoundEntry(o) }

\* C1: the "- <identity> is not found" entries of DiffList(desired.Items, liveItems) are
\* exactly the desired items whose identity no live item has
C1_MissingAreUnmatchedDesired ==
    lDone =>
        MissingReported =
            { NotFoundEntry(lDesired[i]) :
                i \in { j \in 1..Len(lDesired) : ObjectString(lDesired[j]) \notin Ids(lLive) } }

\* C2: the "+ <identity> is found, but not in default" entries are exactly the live
\* items whose identity no desired item has
C2_ExtraAreUnmatchedLive ==
    lDone =>
        ExtraReported =
            { FoundEntry(lLive[i]) :
                i \in { j \in 1..Len(lLive) : ObjectString(lLive[j]) \notin Ids(lDesired) } }

\* the pairs (desired index, live index) of equal identity whose filtered delta is non-empty
ChangedPairs ==
    { pr \in (1..Len(lDesired)) \X (1..Len(lLive)) :
        /\ ObjectString(lDesired[pr[1]]) = ObjectString(lLive[pr[2]])
        /\ ExpectedDelta(lDesired[pr[1]], lLive[pr[2]], lIgnore) # {} }

\* C3: DiffList has one changed entry "<identity>\n<delta>" per matched pair with a
\* non-empty filtered delta and no other changed entry; each delta has the desired
\* item as first operand and the live item as second
C3_ChangedAreMatchedPairs ==
    lDone =>
        /\ Len(lDiffs) = Cardinality(ChangedPairs)
        /\ \A pr \in ChangedPairs :
             \E k \in 1..Len(lDiffs) :
                lDiffs[k] = [labelled |-> TRUE,
                             label |-> ObjectString(lDesired[pr[1]]),
                             delta |-> ExpectedDelta(lDesired[pr[1]], lLive[pr[2]], lIgnore)]

\* a run of DiffList with a changed pair, a matched pair without delta and live items
C3_Witness ==
    /\ lDone
    /\ Len(lDiffs) = 1
    /\ \E i \in 1..Len(lDesired), j \in 1..Len(lLive) :
         /\ ObjectString(lDesired[i]) = ObjectString(lLive[j])
         /\ ExpectedDelta(lDesired[i], lLive[j], lIgnore) = {}
    /\ \E e \in lDiffs[1].delta : e.x # e.y

(* ------------------------------------------------------------------ *)
(* Properties of manifest resolution and the target loop (Spec)        *)
(* ------------------------------------------------------------------ *)
Processed == 1..Len(report)

\* the state of the manifest of target t under version directory v
FileAt(v, t) == IF v \in dirs THEN fs[VersionString(v)][targets[t].Manifest] ELSE "absent"

\* the version directories that hold a manifest file for target t
Existing(t) == { v \in dirs : FileAt(v, t) # "absent" }

\* a comes before b in the promotion-first order around ver
Before(a, b, ver) ==
    \/ ~Less(a, ver) /\ ~Less(b, ver) /\ Less(a, b)
    \/ ~Less(a, ver) /\ Less(b, ver)
    \/ Less(a, ver) /\ Less(b, ver) /\ Less(b, a)

\* the first candidate, in that order, whose manifest file exists
FirstExisting(t) ==
    CHOOSE v \in Existing(t) : \A u \in Existing(t) : u = v \/ Before(v, u, version[1])

NeedsFallback(t) == FileAt(version[1], t) = "absent" /\ opts.Fallback

CallsOf(t) == { k \in 1..Len(calls) : calls[k].t = t }
ResultLinesOf(t) == { k \in 1..Len(stdout) : stdout[k].t = t /\ stdout[k].kind # "label" }
NoticesOf(t) == { stderr[k].text : k \in { j \in 1..Len(stderr) : stderr[j].t = t } }

\* C4: with the target version's manifest absent and fallback enabled, the candidates are
\* tried in promotion-first order up to the first one whose file exists, that manifest is
\* the one diffed, and a notice names it and the target version
C4_FallbackPicksFirstExisting ==
    \A t \in Processed :
        (NeedsFallback(t) /\ Existing(t) # {}) =>
            LET first == FirstExisting(t)
                passed == { u \in dirs : Before(u, first, version[1]) }
                tried == report[t].tried
            IN  /\ Len(tried) = Cardinality(passed) + 2
                /\ tried[1] = VersionString(version[1])
                /\ tried[Len(tried)] = VersionString(first)
                /\ \A k \in 2..(Len(tried) - 1) :
                     \E u \in passed :
                        /\ tried[k] = VersionString(u)
                        /\ Cardinality({ w \in passed : Before(w, u, version[1]) }) = k - 2
                /\ FileAt(first, t) = "ok" =>
                     /\ report[t].used = VersionString(first)
                     /\ UseNotice(first, version[1]) \in NoticesOf(t)

\* C5: with fallback enabled and no manifest under the target version nor under any
\* candidate, the target is skipped: no locator lookup, no get/list, no diff result
C5_ExhaustedIsSkipped ==
    \A t \in Processed :
        (NeedsFallback(t) /\ Existing(t) = {}) =>
            /\ report[t].kind = "err"
            /\ CallsOf(t) = {}
            /\ ResultLinesOf(t) = {}

\* C6: with fallback disabled and the target version's manifest absent, resolution fails
\* as not-found, no other directory is tried, no live-state call is made for the target,
\* and the loop goes on to the remaining targets
C6_NoFallbackIsNotFound ==
    /\ \A t \in Processed :
         (FileAt(version[1], t) = "absent" /\ ~opts.Fallback) =>
            /\ report[t].kind = "err"
            /\ report[t].err = "notexist"
            /\ report[t].tried = << VersionString(version[1]) >>
            /\ report[t].used = ""
            /\ CallsOf(t) = {}
            /\ ResultLinesOf(t) = {}
            /\ NoticesOf(t) = { "skipped due to error: notexist\n" }
    /\ (~opts.Fallback /\ pc \notin { "start", "failed" }) =>
            /\ pc \in { "loop", "done" }
            /\ Len(report) = idx - 1
            /\ pc = "done" => Len(report) = Len(targets)

\* a finished run without fallback whose first target has no manifest under the target
\* version while another directory has it, and whose second target was diffed
C6_Witness ==
    /\ pc = "done"
    /\ ~opts.Fallback
    /\ Len(report) = 2
    /\ FileAt(version[1], 1) = "absent"
    /\ Existing(1) # {}
    /\ report[1].err = "notexist"
    /\ report[2].kind = "ok"
    /\ CallsOf(2) # {}

\* C7: whatever fails for a target, the loop reaches every later target and run returns
\* without error; no per-target failure ends the process
C7_FailureIsolation ==
    /\ pc # "panic"
    /\ \A t \in Processed : report[t].kind \in { "ok", "err" }
    /\ pc = "done" => Len(report) = Len(targets)

(* ------------------------------------------------------------------ *)
(* Properties of fallbackPriority (SpecPrio)                           *)
(* ------------------------------------------------------------------ *)
Count(s, v) == Cardinality({ i \in 1..Len(s) : s[i] = v })
Reverse(s) == [i \in 1..Len(s) |-> s[Len(s) - i + 1]]

\* C8: fallbackPriority returns a permutation of available
C8_Permutation ==
    pDone =>
        /\ Len(pOut) = Len(pAvail)
        /\ \A v \in PrioVersions : Count(pOut, v) = Count(pAvail, v)

\* a call on a full list that the target splits into a lower and an upper part
C8_Witness ==
    /\ pDone
    /\ Len(pAvail) >= 3
    /\ Less(pAvail[1], pTarget)
    /\ Less(pTarget, pAvail[Len(pAvail)])
    /\ Len(pOut) = Len(pAvail)

\* C9: the result is the versions not less than target in ascending order, then the
\* versions less than target in descending order
C9_PromotionFirst ==
    pDone =>
        LET NotBelow(v) == ~Less(v, pTarget)
            Below(v) == Less(v, pTarget)
        IN  pOut = SelectSeq(pAvail, NotBelow) \o Reverse(SelectSeq(pAvail, Below))

\* available = [4.10.0, 4.11.0, 4.12.0], target = 4.11.5 gives [4.12.0, 4.11.0, 4.10.0]
C9_Witness ==
    /\ pDone
    /\ pTarget = Ver(4, 11, 5, "")
    /\ pAvail = << Ver(4, 10, 0, ""), Ver(4, 11, 0, ""), Ver(4, 12, 0, "") >>
    /\ pOut = << Ver(4, 12, 0, ""), Ver(4, 11, 0, ""), Ver(4, 10, 0, "") >>

\* C10 as stated: when target is in available, the first element of the result is target
\* itself, suffix included
C10_FirstIsTargetItself ==
    (pDone /\ pTarget \in Range(pAvail)) => pOut[1] = pTarget

\* C10, amended: when target is in available, the first element of the result has the
\* major.minor.patch of target; it is target itself when no other element of available
\* has that major.minor.patch
C10_FirstHasTargetTriple ==
    (pDone /\ pTarget \in Range(pAvail)) =>
        /\ pOut[1].V = pTarget.V
        /\ (\A v \in Range(pAvail) : v.V = pTarget.V => v = pTarget) => pOut[1] = pTarget

\* a call whose target is in available next to a version of the same triple and another
\* suffix, with lower versions before it
C10_Witness ==
    /\ pDone
    /\ pTarget \in Range(pAvail)
    /\ \E v \in Range(pAvail) : v.V = pTarget.V /\ v # pTarget
    /\ Less(pAvail[1], pTarget)
    /\ pOut[1].V = pTarget.V

(* ------------------------------------------------------------------ *)
(* Properties of Version.Less (SpecVer)                                *)
(* ------------------------------------------------------------------ *)
\* C11: Less is irreflexive and transitive, exactly one of Less(a, b), Less(b, a) and
\* equality of (major, minor, patch) holds, and versions of equal (major, minor, patch)
\* compare equal whatever their suffixes
C11_TotalOrderOnTriple ==
    vDone =>
        /\ ~vRes.aa
        /\ (vRes.ab /\ vRes.bc) => vRes.ac
        /\ \/ vRes.ab /\ ~vRes.ba /\ vA.V # vB.V
           \/ ~vRes.ab /\ vRes.ba /\ vA.V # vB.V
           \/ ~vRes.ab /\ ~vRes.ba /\ vA.V = vB.V

\* two versions of one triple and different suffixes compared, with a third above them
C11_Witness ==
    /\ vDone
    /\ vA.V = vB.V
    /\ vA.Suffix # vB.Suffix
    /\ ~vRes.ab /\ ~vRes.ba
    /\ vRes.bc /\ vRes.ac

(* ------------------------------------------------------------------ *)
(* Properties of the target loop and of main (Spec)                    *)
(* ------------------------------------------------------------------ *)
LabelsPrinted == SelectSeq(stdout, LAMBDA l : l.kind = "label")
RetrievalsOf(t) == { k \in CallsOf(t) : calls[k].op \in { "get", "list" } }

\* C12: targets are processed one after the other in input order, each in one
\* resolution+diff cycle; the output follows the input order; at most one live-state
\* retrieval (one get or one list) is issued per target, also when it fails
C12_SequentialOnce ==
    /\ Len(report) <= Len(targets)
    /\ pc = "loop" => Len(report) = idx - 1
    /\ pc = "done" => Len(report) = Len(targets)
    /\ Len(LabelsPrinted) = Len(report)
    /\ \A k \in 1..Len(LabelsPrinted) : LabelsPrinted[k].t = k
    /\ \A k \in 1..(Len(stdout) - 1) : stdout[k].t <= stdout[k + 1].t
    /\ \A k \in 1..(Len(calls) - 1) : calls[k].t <= calls[k + 1].t
    /\ \A t \in Processed : Cardinality(RetrievalsOf(t)) <= 1
    /\ \A k \in 1..Len(calls) : calls[k].t \in Processed

\* a finished run of two targets whose first live-state retrieval failed
C12_Witness ==
    /\ pc = "done"
    /\ Len(report) = 2
    /\ report[1].err \in { "get", "list" }
    /\ Cardinality(RetrievalsOf(1)) = 1
    /\ report[2].kind = "ok"
    /\ Cardinality(RetrievalsOf(2)) = 1

\* C13: a run that ends with a top-level error exits with a non-zero status and its
\* error printed; only a run without top-level error exits with success
C13_ErrorExitsNonZero ==
    exitCode # NotExited =>
        /\ pc = "failed" => (exitCode # ExitOk /\ \E k \in 1..Len(stderr) : stderr[k].t = 0)
        /\ exitCode = ExitOk => pc = "done"

\* C20: on standard output every target label is followed by exactly one of "No diff."
\* and a non-empty presence/diff block, "No diff." exactly when missing, extra and
\* changed are all empty; a skipped target writes nothing to standard output
C20_OutputBlockShape ==
    \A t \in Processed :
        LET lines == SelectSeq(stdout, LAMBDA l : l.t = t)
            empty == Len(report[t].presences) = 0 /\ Len(report[t].diffs) = 0
        IN  IF report[t].kind = "ok"
            THEN /\ Len(lines) >= 2
                 /\ lines[1].kind = "label"
                 /\ \A k \in 2..Len(lines) : lines[k].kind # "label"
                 /\ empty <=> (Len(lines) = 2 /\ lines[2].kind = "nodiff")
                 /\ ~empty =>
                      \A k \in 2..Len(lines) :
                         /\ lines[k].kind \in { "presences", "diffs" }
                         /\ Len(lines[k].presences) + Len(lines[k].diffs) > 0
            ELSE Len(lines) = 0

(* ------------------------------------------------------------------ *)
(* Properties of the diff of one object (SpecObj)                      *)
(* ------------------------------------------------------------------ *)
Diffed == oVia \in { "obj", "list" } /\ oRemote.kind = "found"

\* the desired and the live object differ in replicas of their spec and in nothing else
DifferOnlyInReplicas ==
    /\ oRemote.kind = "found"
    /\ oDesired.Spec # NIL /\ oRemote.obj.Spec # NIL
    /\ oDesired.Data = oRemote.obj.Data
    /\ \A q \in LeafPaths :
         (oDesired.Spec[1][q] # oRemote.obj.Spec[1][q]) <=> (q = <<"replicas">>)

NoDiffReported ==
    /\ ~oErr /\ oPresences = <<>> /\ oDiffs = <<>>
    /\ oLines = << Line(1, "nodiff", <<>>, <<>>) >>

\* C14: with "spec.replicas" in the ignore list, a desired and a live object that differ
\* only in spec.replicas give an empty delta and the target is reported "No diff."
C14_SpecReplicasIgnored ==
    (Diffed /\ DifferOnlyInReplicas /\ "spec.replicas" \in oIgnore) => NoDiffReported

\* C14 as the code has it: the ignore path is relative to the compared payload, so it is
\* "replicas" that suppresses the difference; without "replicas" (and without the root
\* path "") in the list the difference of a non-ConfigMap is reported, "spec.replicas"
\* in the list or not
C14_PayloadReplicasIgnored ==
    (Diffed /\ DifferOnlyInReplicas) =>
        /\ "replicas" \in oIgnore => NoDiffReported
        /\ (oDesired.Kind # "ConfigMap" /\ oIgnore \cap { "replicas", "" } = {}) =>
             /\ Len(oDiffs) = 1
             /\ oDiffs[1].delta = { [path |-> "replicas",
                                     x |-> oDesired.Spec[1][<<"replicas">>],
                                     y |-> oRemote.obj.Spec[1][<<"replicas">>]] }
             /\ oLines = << Line(1, "diffs", <<>>, oDiffs) >>

C14_Witness ==
    /\ oVia = "obj"
    /\ oDesired.Kind = "Deployment"
    /\ DifferOnlyInReplicas
    /\ "replicas" \in oIgnore
    /\ NoDiffReported

\* the dot-joined strings of the steps from the root down to a leaf
SubtreeNames(q) ==
    CASE q = <<"replicas">> -> { "", "replicas" }
      [] q = <<"template", "image">> -> { "", "template", "template.image" }
      [] q = <<"args", "0">> -> { "", "args", "args.0" }

LeafName(q) ==
    CASE q = <<"replicas">> -> "replicas"
      [] q = <<"template", "image">> -> "template.image"
      [] q = <<"args", "0">> -> "args.0"

\* C15: a difference is suppressed exactly when the dot-joined string of the steps of
\* its path, or of the path of a subtree it lies in, is verbatim one of the ignore
\* paths; prefixes, suffixes and patterns suppress nothing, and a difference outside
\* every ignored subtree is reported
C15_ExactMembership ==
    Diffed =>
        LET x == Compared(oDesired)
            y == Compared(oRemote.obj)
        IN  IF x = NIL \/ y = NIL
            THEN (oDiffs = <<>>) <=> (x = y \/ "" \in oIgnore)
            ELSE LET expected ==
                         { [path |-> LeafName(q), x |-> x[1][q], y |-> y[1][q]] :
                             q \in { l \in LeafPaths :
                                       /\ x[1][l] # y[1][l]
                                       /\ SubtreeNames(l) \cap oIgnore = {} } }
                 IN  IF expected = {} THEN oDiffs = <<>>
                     ELSE Len(oDiffs) = 1 /\ oDiffs[1].delta = expected

\* a difference at template.image reported although "image" is an ignore path
C15_Witness ==
    /\ Diffed
    /\ oIgnore = { "image" }
    /\ Len(oDiffs) = 1
    /\ \E e \in oDiffs[1].delta : e.path = "template.image"

\* C16: in diffObj a not-found answer gives one missing entry with the desired object's
\* identity, no changed entry and no error; any other failure of the get, or of
\* decoding its response, gives an error and no entry, and nothing is printed for
\* the target
C16_LookupOutcomes ==
    oVia = "obj" =>
        /\ oRemote.kind = "notfound" =>
             /\ ~oErr
             /\ oPresences = << "- " \o ObjectString(oDesired) \o " is not found\n" >>
             /\ oDiffs = <<>>
        /\ oRemote.kind \in { "error", "decode" } =>
             /\ oErr
             /\ oPresences = <<>>
             /\ oDiffs = <<>>
             /\ oLines = <<>>

C16_Witness == oVia = "obj" /\ oRemote.kind = "decode" /\ oErr /\ oLines = <<>>

\* C17: the delta is taken between the data fields when the kind is "ConfigMap" and
\* between the spec fields otherwise, in diffObj and in DiffList; ConfigMaps of equal
\* data are equal whatever their spec, other objects of equal spec whatever their data
C17_ConfigMapComparesData ==
    Diffed =>
        /\ IF ExpectedDelta(oDesired, oRemote.obj, oIgnore) = {}
           THEN oDiffs = <<>>
           ELSE /\ Len(oDiffs) = 1
                /\ oDiffs[1].delta = ExpectedDelta(oDesired, oRemote.obj, oIgnore)
        /\ (oDesired.Kind = "ConfigMap" /\ oDesired.Data = oRemote.obj.Data) => oDiffs = <<>>
        /\ (oDesired.Kind # "ConfigMap" /\ oDesired.Spec = oRemote.obj.Spec) => oDiffs = <<>>

\* two ConfigMaps of equal data and different spec, as items of the two lists
C17_Witness ==
    /\ oVia = "list"
    /\ oRemote.kind = "found"
    /\ oIgnore = {}
    /\ oDesired.Kind = "ConfigMap"
    /\ oDesired.Data # NIL
    /\ oDesired.Data = oRemote.obj.Data
    /\ oDesired.Spec # oRemote.obj.Spec
    /\ oDiffs = <<>>

(* ------------------------------------------------------------------ *)
(* Order of the entries of DiffList (SpecList)                         *)
(* ------------------------------------------------------------------ *)
\* C18: the "is not found" entries and the changed entries of DiffList(desired.Items,
\* liveItems) each follow the order of their items in the desired list, whatever the
\* order of the live items
C18_DesiredOrder ==
    lDone =>
        /\ SelectSeq(lPresences, LAMBDA e : \E o \in ListObjects : e = NotFoundEntry(o))
             = SeqMap(NotFoundEntry,
                      SelectSeq(lDesired, LAMBDA o : ObjectString(o) \notin Ids(lLive)))
        /\ [k \in 1..Len(lDiffs) |-> lDiffs[k].label]
             = SeqMap(ObjectString,
                      SelectSeq(lDesired,
                                LAMBDA o : \E j \in 1..Len(lLive) :
                                    /\ ObjectString(o) = ObjectString(lLive[j])
                                    /\ ExpectedDelta(o, lLive[j], lIgnore) # {}))

(* ------------------------------------------------------------------ *)
(* Properties of the directory scan (SpecScan)                         *)
(* ------------------------------------------------------------------ *)
\* the version each entry name stands for, NIL for a name that is no version
ExpectedParse(n) ==
    CASE
         n = << "4", ".", "9", ".", "1", "2" >> -> Some(Ver(4, 9, 12, ""))
      [] n = << "4", ".", "1", "0", ".", "5" >> -> Some(Ver(4, 10, 5, ""))
      [] n = << "4", ".", "1", "1", ".", "0" >> -> Some(Ver(4, 11, 0, ""))
      [] n = << "4", ".", "1", "1", ".", "0", "-", "r", "c", "1" >> -> Some(Ver(4, 11, 0, "-rc1"))
      [] n = << " ", "4", ".", "1", "2", ".", "0" >> -> Some(Ver(4, 12, 0, ""))
      [] n = << "0", "4", ".", "1", "1", ".", "0" >> -> Some(Ver(4, 11, 0, ""))
      [] n = << "4", ".", "1", "1", ".", "0", ".", "1" >> -> Some(Ver(4, 11, 0, ".1"))
      [] n = << "4", ".", "1", "1" >> -> NIL
      [] n = << "l", "a", "t", "e", "s", "t" >> -> NIL
      [] n = << "v", "4", ".", "1", "1", ".", "0" >> -> NIL
      [] n = << "4", "2", "9", "4", "9", "6", "7", "2", "9", "6", ".", "0", ".", "0" >> -> NIL

\* C19: getAvailableVersions returns one Version per entry whose name parses and no
\* other, ascending by Less (no element is Less than the one before it); every other
\* entry is skipped with a warning and the scan goes on
C19_ScanParsesAndSorts ==
    sDone =>
        /\ Len(sVersions) =
             Cardinality({ i \in 1..Len(sEntries) : ExpectedParse(sEntries[i]) # NIL })
        /\ \A i \in 1..Len(sEntries) :
             ExpectedParse(sEntries[i]) # NIL =>
                Count(sVersions, ExpectedParse(sEntries[i])[1])
                  = Cardinality({ j \in 1..Len(sEntries) :
                                    ExpectedParse(sEntries[j]) = ExpectedParse(sEntries[i]) })
        /\ \A k \in 1..(Len(sVersions) - 1) : ~Less(sVersions[k + 1], sVersions[k])
        /\ sWarnings = SelectSeq(sEntries, LAMBDA n : ExpectedParse(n) = NIL)

\* a directory of two versions, listed by name in the other order, and one other entry
C19_Witness ==
    /\ sDone
    /\ Len(sEntries) = 3
    /\ Len(sWarnings) = 1
    /\ sVersions = << Ver(4, 9, 12, ""), Ver(4, 10, 5, "") >>

(* ------------------------------------------------------------------ *)
(* Shape of the changed entries (SpecObj)                              *)
(* ------------------------------------------------------------------ *)
\* C21: every changed entry, from diffObj as from DiffList, carries the identity label
\* of the compared object together with the filtered delta
C21_ChangedCarryIdentity ==
    (oVia \in { "obj", "list" } /\ oRemote.kind = "found") =>
        \A k \in 1..Len(oDiffs) :
            /\ oDiffs[k].labelled
            /\ oDiffs[k].label = ObjectString(oDesired)
            /\ oDiffs[k].delta = ExpectedDelta(oDesired, oRemote.obj, oIgnore)

(* ------------------------------------------------------------------ *)
(* Identity as a join key (SpecId)                                     *)
(* ------------------------------------------------------------------ *)
IdTuple(o) == << o.APIVersion, o.Kind, o.Namespace, o.Name >>

\* C22: Object.String gives two objects equal strings if and only if their
\* (apiVersion, kind, namespace, name) are equal; the string is
\* "<apiVersion> <kind> <name>" without namespace, else
\* "<apiVersion> <kind> <namespace>/<name>"
C22_FaithfulJoinKey ==
    iDone =>
        /\ (iStrA = iStrB) <=> (IdTuple(iA) = IdTuple(iB))
        /\ iA.Namespace = "" => iStrA = iA.APIVersion \o " " \o iA.Kind \o " " \o iA.Name
        /\ iA.Namespace # "" =>
             iStrA = iA.APIVersion \o " " \o iA.Kind \o " " \o iA.Namespace \o "/" \o iA.Name

(* ------------------------------------------------------------------ *)
(* The version the fallback works from (Spec)                          *)
(* ------------------------------------------------------------------ *)
\* the version directory of a name in report[t].tried
DirNamed(name) == CHOOSE v \in dirs : VersionString(v) = name

\* C23: in checkTarget the order of the fallback candidates and the fallback notice are
\* taken from the effective version the primary path was built from, given with
\* --cluster-version or detected from the cluster; a fallback never dereferences an
\* absent version and never ends the process
C23_FallbackFromEffectiveVersion ==
    /\ pc # "panic"
    /\ exitCode # ExitPanic
    /\ \A t \in Processed :
         NeedsFallback(t) =>
            LET tried == report[t].tried
            IN  /\ report[t].kind # "panic"
                /\ tried[1] = VersionString(version[1])
                /\ \A k \in 2..Len(tried) : \E v \in dirs : VersionString(v) = tried[k]
                /\ \A k, l \in 2..Len(tried) :
                     k < l => Before(DirNamed(tried[k]), DirNamed(tried[l]), version[1])
                /\ report[t].used # "" =>
                     NoticesOf(t) \cap { UseNotice(v, w) : v \in dirs, w \in ClusterVersions }
                       = { UseNotice(DirNamed(report[t].used), version[1]) }

====
